---- MODULE Spec2Model ----
(***************************************************************************)
(* The response cache with stampede protection of lib/middleware/cache.ts: *)
(* concurrent requests run the middleware against one shared key-value     *)
(* store.  Every store operation, every call of next() and every sleep of  *)
(* the wait loop is one atomic step of the request that performs it; the   *)
(* steps of different requests interleave freely.                          *)
(***************************************************************************)
EXTENDS Naturals, Sequences, FiniteSets, TLC

\* ------------------------------------------------------------------ bounds
NumReqs == 2
MaxExpire == 1
MaxTimeout == 3

Reqs == 1..NumReqs

\* --------------------------------------------------------------- constants
\* cache.ts:9
bypassList == {"/", "/robots.txt", "/logo.png", "/favicon.ico"}

\* config.cache.requestTimeout and config.cache.routeExpire, in seconds
requestTimeout == 60
routeExpire == 300

\* cache.ts:16, the retry budget outside and inside the test profile
RetriesProd == 10
RetriesTest == 1

\* ------------------------------------------------------------------ inputs
Paths == {"/", "/feed"}
Formats == {"undef"}
Limits == {"undef"}
Requests == [path : Paths, format : Formats, limit : Limits]
NoRequest == [path |-> "none", format |-> "undef", limit |-> "undef"]

\* the payload next() produces for request r is named after r: every run of
\* the generation step yields a payload of its own
Body(r) == "payload" \o ToString(r)
Bodies == {Body(r) : r \in Reqs}
NoData == [body |-> "undefined", lastBuildDate |-> "unset"]
GenData(r) == {[body |-> Body(r), lastBuildDate |-> "unset"]}
CacheControls == {"no-cache", "max-age"}
GenErrors == {"GenerationFailure"}
\* what next() throws when the generation step gives up on a canceled request
AbortError == "AbortError"
RequestInProgressError == "RequestInProgressError"
StoreWriteFailure == "StoreWriteFailure"

\* what next() did: nothing yet, returned (with the data and the
\* Cache-Control header it left on the context), or threw
NoGen == [kind |-> "none", data |-> NoData, cc |-> "none", error |-> "none"]
GenOk(d, cc) == [kind |-> "ok", data |-> d, cc |-> cc, error |-> "none"]
GenThrow(e) == [kind |-> "throw", data |-> NoData, cc |-> "none", error |-> e]

\* ----------------------------------------------------------- pure helpers
\* a query parameter that is undefined or empty is falsy
Falsy(x) == x \in {"undef", ""}

\* cache.ts:36
requestKey(q) ==
    q.path \o ":" \o (IF Falsy(q.format) THEN "rss" ELSE q.format)
           \o (IF Falsy(q.limit) THEN "" ELSE ":" \o q.limit)

\* cache.ts:37, xxhash-wasm's h64ToString: a fixed-width digest of the string
h64ToString(s) == "h64(" \o s \o ")"

\* cache.ts:38
key(q) == "rsshub:koa-redis-cache:" \o h64ToString(requestKey(q))
\* cache.ts:39
controlKey(q) == "rsshub:path-requested:" \o h64ToString(requestKey(q))

Keys == {key(q) : q \in Requests} \cup {controlKey(q) : q \in Requests}

\* cache.ts:69 JSON.stringify(data) and cache.ts:49 JSON.parse(value)
JSONstringify(d) == "{" \o d.body \o "," \o d.lastBuildDate \o "}"
DataObjects == {[body |-> b, lastBuildDate |-> l] : b \in Bodies, l \in {"unset", "now"}}

\* the parse of a cached value losing the lastBuildDate that was stored
JSONparse_LosesDate(s) ==
    [(CHOOSE d \in DataObjects : JSONstringify(d) = s) EXCEPT !.lastBuildDate = "unset"]

JSONparse(s) == CHOOSE d \in DataObjects : JSONstringify(d) = s

\* the write-back storing the data as next() returned it
Stamp_Nothing(d) == d

\* cache.ts:67
Stamp(d) == [d EXCEPT !.lastBuildDate = "now"]

\* the write-back decision looking at the data only, not at Cache-Control
Cacheable_IgnoresHeader(g) == g.data # NoData
\* the write-back decision with the comparison of Cache-Control inverted
Cacheable_Inverted(g) == g.cc = "no-cache" /\ g.data # NoData

\* cache.ts:66
Cacheable(g) == g.cc # "no-cache" /\ g.data # NoData

\* cache.ts:16
InitialRetries(env) == IF env = "test" THEN RetriesTest ELSE RetriesProd

\* the two sources of waitForRequest
Impls == {"cache.ts", "access-control.ts"}
\* the values of config.cache.requestTimeout a call of waitForRequest is run
\* with
Timeouts == (1..MaxTimeout) \cup {requestTimeout}
\* the results of a poll of the control key
PollResults == {"1", "0", "nil"}

Ceil(a, b) == (a + b - 1) \div b

\* cache.ts:18 and access-control.ts:115, the sleep of one iteration in ms
waitTime(impl, env) ==
    IF impl = "cache.ts" THEN (IF env = "test" THEN 3000 ELSE 6000)
                         ELSE (IF env = "test" THEN 1000 ELSE 500)

\* cache.ts:16 and access-control.ts:117-118, the retry budget
maxRetries(impl, env, timeout) ==
    IF impl = "cache.ts" THEN InitialRetries(env)
                         ELSE Ceil(timeout * 1000, waitTime(impl, env))

\* no call of waitForRequest taken by itself
NoWait == [impl |-> "none", timeout |-> 0, retryTimes |-> 0, sleeps |-> 0,
           polls |-> 0, out |-> "none"]

\* requests as the computation of the keys sees them: the path and the query
\* with format, limit and one parameter the keys do not look at
KeyPaths == {"/feed", "/news"}
KeyFormats == {"undef", "", "rss", "atom", "rss:5"}
KeyLimits == {"undef", "", "5"}
KeyOthers == {"undef", "1"}
KeyRequests == [path : KeyPaths, format : KeyFormats, limit : KeyLimits, other : KeyOthers]
\* cache.ts:38-39, the two keys of a request
KeysOf(q) == [key |-> key(q), controlKey |-> controlKey(q)]
NoKeys == [key |-> "none", controlKey |-> "none"]
NoKeyed == [a |-> NoRequest, b |-> NoRequest, ka |-> NoKeys, kb |-> NoKeys]

\* the two sources of the handler of /health
HealthImpls == {"part_002", "part_003"}
\* the status of the report HealthKit's collect() returns
ReportStatuses == {"ok", "pass", "warn", "fail"}
Reports == [status : ReportStatuses, checks : {"redis ok", "redis fail"}]
NoReport == [status |-> "none", checks |-> "none"]
\* config.healthkit.apiKey and the key a request carries, "undef" for none
ApiKeys == {"undef", "", "k1", "k2"}
\* the Authorization header: its scheme and what follows "<scheme> "
NoHeader == [scheme |-> "none", cred |-> ""]
AuthHeaders == {NoHeader} \cup [scheme : {"Bearer", "Basic"}, cred : {"", "k1", "k2"}]
\* the x-api-key header
XApiKeys == {"undef", "", "k1", "k2"}
\* the body of a 401
Unauthorized == [status |-> "Unauthorized", checks |-> "none"]
NoResponse == [status |-> 0, body |-> NoReport]
NoHealth == [impl |-> "none", apiKey |-> "undef", providedKey |-> "undef",
             authHeader |-> NoHeader, xApiKey |-> "undef",
             phase |-> "none", report |-> NoReport, res |-> NoResponse]

\* the status answering a degraded report with 503 as well
httpStatus_WarnFails(report) == IF report.status \in {"fail", "warn"} THEN 503 ELSE 200

\* part_002:87 and part_003:107
httpStatus(report) == IF report.status = "fail" THEN 503 ELSE 200

\* ---------------------------------------------------------- access control
\* a JavaScript string as the sequence of its UTF-16 code units, or undefined
Undefined == [def |-> FALSE, s |-> <<>>]
Str(s) == [def |-> TRUE, s |-> s]
\* code units: a, e-acute, a high and a low surrogate, the replacement
\* character
HighSurrogate == "D83D"
LowSurrogate == "DE00"
CodeUnits == {"a", "E9", HighSurrogate, LowSurrogate, "FFFD"}
MaxStrLen == 2
UnitSeqs == UNION {[1..n -> CodeUnits] : n \in 0..MaxStrLen}
Strings == {Undefined} \cup {Str(s) : s \in UnitSeqs}

\* no surrogate outside a pair
RECURSIVE WellFormed(_)
WellFormed(s) ==
    IF s = <<>> THEN TRUE
    ELSE IF Len(s) >= 2 /\ s[1] = HighSurrogate /\ s[2] = LowSurrogate
         THEN WellFormed(SubSeq(s, 3, Len(s)))
         ELSE s[1] \notin {HighSurrogate, LowSurrogate} /\ WellFormed(Tail(s))

\* the UTF-8 bytes of one code unit outside a pair: ASCII is one byte, e-acute
\* two, a lone surrogate is replaced by U+FFFD
Utf8Unit(u) ==
    IF u \in {HighSurrogate, LowSurrogate, "FFFD"} THEN <<"EF", "BF", "BD">>
    ELSE IF u = "E9" THEN <<"C3", "A9">>
    ELSE <<u>>

\* access-control.ts:24 and :73, Buffer.from(string) and hash.update(string):
\* the UTF-8 encoding of the string
RECURSIVE UTF8(_)
UTF8(s) ==
    IF s = <<>> THEN <<>>
    ELSE IF Len(s) >= 2 /\ s[1] = HighSurrogate /\ s[2] = LowSurrogate
         THEN <<"F0", "9F", "98", "80">> \o UTF8(SubSeq(s, 3, Len(s)))
         ELSE Utf8Unit(s[1]) \o UTF8(Tail(s))

\* access-control.ts:24, createHash('sha256').update(a).digest(): a digest of
\* fixed length of the bytes
sha256(s) == <<"sha256", UTF8(s)>>

\* crypto.timingSafeEqual: the comparison of two buffers, a RangeError when
\* their lengths differ
timingSafeEqual(x, y) ==
    IF Len(x) # Len(y) THEN "throws" ELSE IF x = y THEN "true" ELSE "false"

\* access-control.ts:21 and :70, !a
Not(a) == ~a.def \/ a.s = <<>>

\* access-control.ts:20-27
safeCompareHash(a, b) ==
    IF Not(a) \/ Not(b) THEN "false"
    ELSE timingSafeEqual(sha256(a.s), sha256(b.s))

\* the comparison of the buffers without the test of their lengths
safeCompareLength_NoLengthCheck(a, b) ==
    IF Not(a) \/ Not(b) THEN "false"
    ELSE timingSafeEqual(UTF8(a.s), UTF8(b.s))

\* access-control.ts:69-76
safeCompareLength(a, b) ==
    IF Not(a) \/ Not(b) THEN "false"
    ELSE IF Len(UTF8(a.s)) = Len(UTF8(b.s))
         THEN timingSafeEqual(UTF8(a.s), UTF8(b.s))
         ELSE "false"

\* the two sources of the access-control middleware
AccessImpls == {"hash", "length"}
safeCompare(impl, a, b) ==
    IF impl = "hash" THEN safeCompareHash(a, b) ELSE safeCompareLength(a, b)

\* utils/md5: the hex digest of the string
md5(s) == Str(<<"md5(">> \o UTF8(s) \o <<")">>)

AccessPaths == {"/", "/robots.txt", "/favicon.ico", "/logo.png", "/feed", "/news"}
\* config.accessKey
AccessKeys == {Undefined, Str(<<>>), Str(<<"a">>), Str(<<"a", "E9">>)}
\* the key and code query parameters: what the decoding of a URL gives
QueryKeys == AccessKeys \cup {Str(<<"E9">>), Str(<<"FFFD">>)}
QueryCodes ==
    {Undefined, Str(<<>>), Str(<<"a">>)}
        \cup {md5(<<p>> \o k.s) : p \in {"/feed", "/"}, k \in {Str(<<"a">>), Str(<<"a", "E9">>)}}
RejectError == "RejectError"
RangeError == "RangeError"
NoAccess == [impl |-> "none", path |-> "none", accessKey |-> Undefined,
             key |-> Undefined, code |-> Undefined,
             phase |-> "none", nextCalls |-> 0, thrown |-> "none"]
NoCompare == [a |-> Undefined, b |-> Undefined, hash |-> "none", length |-> "none"]

\* access-control.ts:34 and :83
Exempt(path) == path \in {"/", "/robots.txt", "/favicon.ico", "/logo.png"}

\* ------------------------------------------------------------- healthkit.ts
\* config.healthkit.dashboardUrl and config.healthkit.ingestUrl
Urls == {"undef", "", "https://dashboard"}
MaxInits == 3
\* healthkit.ts:6-11 at module load, with the configuration and what has
\* happened so far
NoKit == [dashboardUrl |-> "undef", ingestUrl |-> "undef",
          healthkit |-> "null", state |-> "disabled",
          collect |-> "none", created |-> 0, inits |-> 0,
          threw |-> FALSE, phase |-> "none"]
KitStates == {"disabled", "initializing", "connected", "failed"}

\* ------------------------------------------------------------------- state
VARIABLES
    available,   \* cacheModule.status.available
    nodeEnv,     \* process.env.NODE_ENV
    store,       \* cacheModule.globalCache: key -> [val, ttl]
    expired,     \* how many times the TTL of an entry has run out
    pc,          \* where each request is in the middleware
    req,         \* the request's path and query
    retryTimes,  \* waitForRequest's retryTimes
    ctxData,     \* ctx.get('data')
    cacheStatus, \* the RSSHub-Cache-Status response header
    gen,         \* what next() did for the request
    thrown,      \* the error that left the middleware
    nextCalls,   \* how often the request called next()
    waited,      \* the request entered waitForRequest
    wlog,        \* the store writes the request issued, in order
    rlog,        \* the store reads the request issued, in order
    otherWrote,  \* another request wrote the request's control key after the
                 \* request last read it
    wfr,         \* a call of waitForRequest taken by itself
    kq,          \* two requests and the keys computed for them
    canceled,    \* where the request was when its caller canceled it
    hk,          \* a request to the health endpoint
    ac,          \* a request to the access-control middleware
    sc,          \* two values and what safeCompare returns for them
    kit          \* healthkit.ts: the module's instance and status

vars == <<available, nodeEnv, store, expired, pc, req, retryTimes, ctxData,
          cacheStatus, gen, thrown, nextCalls, waited, wlog, rlog, otherWrote,
          wfr, kq, canceled, hk, ac, sc, kit>>

ctxVars == <<ctxData, cacheStatus, gen, thrown, nextCalls>>

mainVars == <<available, nodeEnv, store, expired, pc, req, retryTimes, ctxData,
              cacheStatus, gen, thrown, nextCalls, waited, wlog, rlog, otherWrote>>

Absent == [val |-> "nil", ttl |-> 0]

\* globalCache.get: the value, or nil for a key that is absent or expired
Get(k) == store[k].val
\* globalCache.set with a TTL
Set(k, v, ttl) == [store EXCEPT ![k] = [val |-> v, ttl |-> ttl]]

\* cache.ts:46, if (value)
Truthy(v) == v # "nil" /\ v # ""

Init ==
    /\ available \in BOOLEAN
    /\ nodeEnv \in {"test", "production"}
    /\ store = [k \in Keys |-> Absent]
    /\ expired = 0
    /\ pc = [r \in Reqs |-> "idle"]
    /\ req = [r \in Reqs |-> NoRequest]
    /\ retryTimes = [r \in Reqs |-> 0]
    /\ ctxData = [r \in Reqs |-> NoData]
    /\ cacheStatus = [r \in Reqs |-> "none"]
    /\ gen = [r \in Reqs |-> NoGen]
    /\ thrown = [r \in Reqs |-> "none"]
    /\ nextCalls = [r \in Reqs |-> 0]
    /\ waited = [r \in Reqs |-> FALSE]
    /\ wlog = [r \in Reqs |-> <<>>]
    /\ rlog = [r \in Reqs |-> <<>>]
    /\ otherWrote = [r \in Reqs |-> FALSE]
    /\ wfr = NoWait
    /\ kq = NoKeyed
    /\ canceled = [r \in Reqs |-> "no"]
    /\ ac = NoAccess
    /\ sc = NoCompare
    /\ kit = NoKit
    /\ hk = NoHealth

\* ----------------------------------------------------------------- actions
\* A step of a request runs the middleware up to and including its next
\* operation on the store; what it does between two store operations touches
\* only the request's own context.  Requests are numbered in the order in
\* which they arrive.

\* The bookkeeping of otherWrote, which is kept for a request from its last
\* read of the control key to the end of the request: r reads its control
\* key, r writes its control key, r ends.
InFlight(o) == pc[o] \in {"lookup", "claim", "generate", "release"}
ReadsControl(r) == [otherWrote EXCEPT ![r] = FALSE]
WritesControl(r) ==
    [o \in Reqs |-> IF o # r /\ InFlight(o) /\ controlKey(req[o]) = controlKey(req[r])
                    THEN TRUE ELSE otherWrote[o]]
Ends(r, f) == [f EXCEPT ![r] = FALSE]

\* the claim writing a marker the in-flight check does not know
ClaimControl_WritesTrue(r) == Set(controlKey(req[r]), "true", requestTimeout)
\* the claim writing the released value
ClaimControl_WritesZero(r) == Set(controlKey(req[r]), "0", requestTimeout)
\* the claim written without a TTL
ClaimControl_NoTTL(r) == Set(controlKey(req[r]), "1", 0)

\* cache.ts:54, the store after the claim of r's control key
ClaimControl(r) == Set(controlKey(req[r]), "1", requestTimeout)

\* the release deleting the control entry instead of writing "0"
ReleaseControl_Deletes(r) == [store EXCEPT ![controlKey(req[r])] = Absent]

\* the release writing the in-progress value
ReleaseControl_WritesOne(r) == Set(controlKey(req[r]), "1", requestTimeout)
\* cache.ts:61 and cache.ts:72, the store after the release of r's control key
ReleaseControl(r) == Set(controlKey(req[r]), "0", requestTimeout)

\* the bypass test looking at the availability of the store only
Bypassed_AvailabilityOnly(q) == ~available
\* the bypass test looking at the path only
Bypassed_PathOnly(q) == q.path \in bypassList

\* cache.ts:29
Bypassed(q) == ~available \/ q.path \in bypassList

\* the in-flight check reading the data key instead of the control key
InProgress_DataKey(q) == Get(key(q)) = "1"

\* the in-flight check still seeing a marker whose TTL has run out
InProgress_StaleMarker(q) ==
    Get(controlKey(q)) = "1" \/ (Get(controlKey(q)) = "nil" /\ expired > 0)

\* cache.ts:41
InProgress(q) == Get(controlKey(q)) = "1"

\* cache.ts:28-32, a bypassed request: next() and nothing else
ArriveBypass(r) ==
    /\ pc[r] = "idle"
    /\ \A o \in Reqs : o < r => pc[o] # "idle"
    /\ \E q \in Requests :
        /\ Bypassed(q)
        /\ req' = [req EXCEPT ![r] = q]
    /\ nextCalls' = [nextCalls EXCEPT ![r] = @ + 1]
    /\ \/ /\ pc' = [pc EXCEPT ![r] = "done"]
          /\ UNCHANGED <<gen, thrown>>
       \/ \E e \in GenErrors :
            /\ gen' = [gen EXCEPT ![r] = GenThrow(e)]
            /\ thrown' = [thrown EXCEPT ![r] = e]
            /\ pc' = [pc EXCEPT ![r] = "error"]
    /\ UNCHANGED <<wfr, kq, canceled, hk, ac, sc, kit, available, nodeEnv, rlog, store, expired, retryTimes, ctxData, cacheStatus, waited, wlog, otherWrote>>

\* cache.ts:28-43, a cached request arrives and makes the in-flight check
ArriveCheck(r) ==
    /\ pc[r] = "idle"
    /\ \A o \in Reqs : o < r => pc[o] # "idle"
    /\ \E q \in Requests :
        /\ ~Bypassed(q)
        /\ req' = [req EXCEPT ![r] = q]
        /\ IF InProgress(q)
           THEN /\ pc' = [pc EXCEPT ![r] = "wait"]
                /\ retryTimes' = [retryTimes EXCEPT ![r] = InitialRetries(nodeEnv)]
                /\ waited' = [waited EXCEPT ![r] = TRUE]
           ELSE /\ pc' = [pc EXCEPT ![r] = "lookup"]
                /\ UNCHANGED <<retryTimes, waited>>
    /\ rlog' = [rlog EXCEPT ![r] = Append(@, "control")]
    /\ UNCHANGED <<wfr, kq, canceled, hk, ac, sc, kit, available, nodeEnv, store, expired, ctxVars, wlog>>
    /\ otherWrote' = ReadsControl(r)

\* the wait loop going on to the lookup when its budget is used up, instead
\* of throwing
WaitIteration_NoTimeout(r) ==
    /\ pc[r] = "wait"
    /\ retryTimes[r] > 0
    /\ IF ~InProgress(req[r])
       THEN /\ pc' = [pc EXCEPT ![r] = "lookup"]
            /\ UNCHANGED <<retryTimes, thrown>>
       ELSE /\ retryTimes' = [retryTimes EXCEPT ![r] = @ - 1]
            /\ pc' = IF retryTimes[r] - 1 > 0 THEN pc ELSE [pc EXCEPT ![r] = "lookup"]
            /\ thrown' = thrown
    /\ rlog' = [rlog EXCEPT ![r] = Append(@, "control")]
    /\ UNCHANGED <<wfr, kq, canceled, hk, ac, sc, kit, available, nodeEnv, store, expired, req, ctxData, cacheStatus, gen, nextCalls, waited, wlog>>
    /\ otherWrote' = ReadsControl(r)

\* the wait loop never returning early: the poll's result is ignored
WaitIteration_PollIgnored(r) ==
    /\ pc[r] = "wait"
    /\ retryTimes[r] > 0
    /\ retryTimes' = [retryTimes EXCEPT ![r] = @ - 1]
    /\ IF retryTimes[r] - 1 > 0
       THEN /\ pc' = pc
            /\ thrown' = thrown
       ELSE /\ pc' = [pc EXCEPT ![r] = "error"]
            /\ thrown' = [thrown EXCEPT ![r] = RequestInProgressError]
    /\ rlog' = [rlog EXCEPT ![r] = Append(@, "control")]
    /\ UNCHANGED <<wfr, kq, canceled, hk, ac, sc, kit, available, nodeEnv, store, expired, req, ctxData, cacheStatus, gen, nextCalls, waited, wlog>>
    /\ otherWrote' = ReadsControl(r)

\* the wait loop polling without counting its retries down
WaitIteration_NoBudget(r) ==
    /\ pc[r] = "wait"
    /\ retryTimes[r] > 0
    /\ IF ~InProgress(req[r])
       THEN pc' = [pc EXCEPT ![r] = "lookup"]
       ELSE pc' = pc
    /\ rlog' = [rlog EXCEPT ![r] = IF Len(@) < 2 THEN Append(@, "control") ELSE @]
    /\ UNCHANGED <<wfr, kq, canceled, hk, ac, sc, kit, available, nodeEnv, store, expired, req, ctxData, cacheStatus, gen, nextCalls, waited, wlog, retryTimes, thrown>>
    /\ otherWrote' = ReadsControl(r)

\* the wait loop clearing the marker when it gives up
WaitIteration_TimeoutReleases(r) ==
    /\ pc[r] = "wait"
    /\ retryTimes[r] > 0
    /\ IF ~InProgress(req[r])
       THEN /\ pc' = [pc EXCEPT ![r] = "lookup"]
            /\ UNCHANGED <<retryTimes, thrown, store, wlog>>
       ELSE /\ retryTimes' = [retryTimes EXCEPT ![r] = @ - 1]
            /\ IF retryTimes[r] - 1 > 0
               THEN /\ pc' = pc
                    /\ UNCHANGED <<thrown, store, wlog>>
               ELSE /\ pc' = [pc EXCEPT ![r] = "error"]
                    /\ thrown' = [thrown EXCEPT ![r] = RequestInProgressError]
                    /\ store' = Set(controlKey(req[r]), "0", requestTimeout)
                    /\ wlog' = [wlog EXCEPT ![r] = Append(@, <<"control", "0", requestTimeout>>)]
    /\ rlog' = [rlog EXCEPT ![r] = Append(@, "control")]
    /\ UNCHANGED <<wfr, kq, canceled, hk, ac, sc, kit, available, nodeEnv, expired, req, ctxData, cacheStatus, gen, nextCalls, waited>>
    /\ otherWrote' = ReadsControl(r)

\* cache.ts:17-25, one iteration of the wait loop: the sleep, then the poll of
\* the control key when the sleep ends
WaitIteration(r) ==
    /\ pc[r] = "wait"
    /\ retryTimes[r] > 0
    /\ IF ~InProgress(req[r])
       THEN /\ pc' = [pc EXCEPT ![r] = "lookup"]
            /\ UNCHANGED <<retryTimes, thrown>>
       ELSE /\ retryTimes' = [retryTimes EXCEPT ![r] = @ - 1]
            /\ IF retryTimes[r] - 1 > 0
               THEN /\ pc' = pc
                    /\ thrown' = thrown
               ELSE /\ pc' = [pc EXCEPT ![r] = "error"]
                    /\ thrown' = [thrown EXCEPT ![r] = RequestInProgressError]
    /\ rlog' = [rlog EXCEPT ![r] = Append(@, "control")]
    /\ UNCHANGED <<wfr, kq, canceled, hk, ac, sc, kit, available, nodeEnv, store, expired, req, ctxData, cacheStatus, gen, nextCalls, waited, wlog>>
    /\ otherWrote' = ReadsControl(r)

\* the hit branch without its return: the request goes on to the claim
LookupHit_NoReturn(r) ==
    /\ pc[r] = "lookup"
    /\ Truthy(Get(key(req[r])))
    /\ cacheStatus' = [cacheStatus EXCEPT ![r] = "HIT"]
    /\ ctxData' = [ctxData EXCEPT ![r] = JSONparse(Get(key(req[r])))]
    /\ nextCalls' = [nextCalls EXCEPT ![r] = @ + 1]
    /\ pc' = [pc EXCEPT ![r] = "claim"]
    /\ rlog' = [rlog EXCEPT ![r] = Append(@, "data")]
    /\ UNCHANGED <<wfr, kq, canceled, hk, ac, sc, kit, available, nodeEnv, store, expired, req, retryTimes, gen, thrown, waited, wlog, otherWrote>>

\* cache.ts:45-52, the lookup of the data key is a hit: the payload is
\* attached and next() is awaited
LookupHit(r) ==
    /\ pc[r] = "lookup"
    /\ Truthy(Get(key(req[r])))
    /\ cacheStatus' = [cacheStatus EXCEPT ![r] = "HIT"]
    /\ ctxData' = [ctxData EXCEPT ![r] = JSONparse(Get(key(req[r])))]
    /\ nextCalls' = [nextCalls EXCEPT ![r] = @ + 1]
    /\ \/ /\ pc' = [pc EXCEPT ![r] = "done"]
          /\ UNCHANGED <<gen, thrown>>
       \/ \E e \in GenErrors :
            /\ gen' = [gen EXCEPT ![r] = GenThrow(e)]
            /\ thrown' = [thrown EXCEPT ![r] = e]
            /\ pc' = [pc EXCEPT ![r] = "error"]
    /\ rlog' = [rlog EXCEPT ![r] = Append(@, "data")]
    /\ UNCHANGED <<wfr, kq, canceled, hk, ac, sc, kit, available, nodeEnv, store, expired, req, retryTimes, waited, wlog>>
    /\ otherWrote' = Ends(r, otherWrote)

\* the request going on to the claim whatever the lookup returned
LookupMiss_Unguarded(r) ==
    /\ pc[r] = "lookup"
    /\ pc' = [pc EXCEPT ![r] = "claim"]
    /\ rlog' = [rlog EXCEPT ![r] = Append(@, "data")]
    /\ UNCHANGED <<wfr, kq, canceled, hk, ac, sc, kit, available, nodeEnv, store, expired, req, retryTimes, ctxVars, waited, wlog, otherWrote>>

\* cache.ts:45-46, the lookup of the data key is a miss
LookupMiss(r) ==
    /\ pc[r] = "lookup"
    /\ ~Truthy(Get(key(req[r])))
    /\ pc' = [pc EXCEPT ![r] = "claim"]
    /\ rlog' = [rlog EXCEPT ![r] = Append(@, "data")]
    /\ UNCHANGED <<wfr, kq, canceled, hk, ac, sc, kit, available, nodeEnv, store, expired, req, retryTimes, ctxVars, waited, wlog, otherWrote>>

\* cache.ts:54-59, the claim of the control key; next() is then running
Claim(r) ==
    /\ pc[r] = "claim"
    /\ store' = ClaimControl(r)
    /\ wlog' = [wlog EXCEPT ![r] = Append(@, <<"control", "1", requestTimeout>>)]
    /\ pc' = [pc EXCEPT ![r] = "generate"]
    /\ UNCHANGED <<wfr, kq, canceled, hk, ac, sc, kit, available, nodeEnv, rlog, expired, req, retryTimes, ctxVars, waited>>
    /\ otherWrote' = WritesControl(r)

\* the catch block rethrowing without the release
GenerateThrow_NoRelease(r) ==
    /\ pc[r] = "generate"
    /\ \E e \in GenErrors :
        /\ gen' = [gen EXCEPT ![r] = GenThrow(e)]
        /\ thrown' = [thrown EXCEPT ![r] = e]
    /\ nextCalls' = [nextCalls EXCEPT ![r] = @ + 1]
    /\ pc' = [pc EXCEPT ![r] = "error"]
    /\ UNCHANGED <<wfr, kq, canceled, hk, ac, sc, kit, available, nodeEnv, rlog, store, expired, req, retryTimes, ctxData, cacheStatus, waited, wlog>>
    /\ otherWrote' = Ends(r, otherWrote)

\* cache.ts:58-63, next() throws: the release in the catch block, the rethrow
GenerateThrow(r) ==
    /\ pc[r] = "generate"
    /\ \E e \in GenErrors :
        /\ gen' = [gen EXCEPT ![r] = GenThrow(e)]
        /\ thrown' = [thrown EXCEPT ![r] = e]
    /\ nextCalls' = [nextCalls EXCEPT ![r] = @ + 1]
    /\ store' = ReleaseControl(r)
    /\ wlog' = [wlog EXCEPT ![r] = Append(@, <<"control", "0", requestTimeout>>)]
    /\ pc' = [pc EXCEPT ![r] = "error"]
    /\ UNCHANGED <<wfr, kq, canceled, hk, ac, sc, kit, available, nodeEnv, rlog, expired, req, retryTimes, ctxData, cacheStatus, waited>>
    /\ otherWrote' = Ends(r, WritesControl(r))

\* cache.ts:58-72, next() returns a response that is not written back: the
\* release
GenerateNoWrite(r) ==
    /\ pc[r] = "generate"
    /\ \E d \in GenData(r) \cup {NoData}, cc \in CacheControls :
        /\ ~Cacheable(GenOk(d, cc))
        /\ gen' = [gen EXCEPT ![r] = GenOk(d, cc)]
        /\ ctxData' = [ctxData EXCEPT ![r] = d]
    /\ nextCalls' = [nextCalls EXCEPT ![r] = @ + 1]
    /\ store' = ReleaseControl(r)
    /\ wlog' = [wlog EXCEPT ![r] = Append(@, <<"control", "0", requestTimeout>>)]
    /\ pc' = [pc EXCEPT ![r] = "done"]
    /\ UNCHANGED <<wfr, kq, canceled, hk, ac, sc, kit, available, nodeEnv, rlog, expired, req, retryTimes, cacheStatus, thrown, waited>>
    /\ otherWrote' = Ends(r, WritesControl(r))

\* the write-back releasing the control key before anything is stored
GenerateWrite_ReleaseFirst(r) ==
    /\ pc[r] = "generate"
    /\ \E d \in GenData(r) \cup {NoData}, cc \in CacheControls :
        /\ Cacheable(GenOk(d, cc))
        /\ gen' = [gen EXCEPT ![r] = GenOk(d, cc)]
        /\ ctxData' = [ctxData EXCEPT ![r] = Stamp(d)]
    /\ store' = ReleaseControl(r)
    /\ wlog' = [wlog EXCEPT ![r] = Append(@, <<"control", "0", requestTimeout>>)]
    /\ nextCalls' = [nextCalls EXCEPT ![r] = @ + 1]
    /\ pc' = [pc EXCEPT ![r] = "release"]
    /\ UNCHANGED <<wfr, kq, canceled, hk, ac, sc, kit, available, nodeEnv, rlog, expired, req, retryTimes, cacheStatus, thrown, waited>>
    /\ otherWrote' = WritesControl(r)

\* the write-back leaving an entry that is already there as it is
GenerateWrite_FirstWins(r) ==
    /\ pc[r] = "generate"
    /\ \E d \in GenData(r) \cup {NoData}, cc \in CacheControls :
        /\ Cacheable(GenOk(d, cc))
        /\ gen' = [gen EXCEPT ![r] = GenOk(d, cc)]
        /\ ctxData' = [ctxData EXCEPT ![r] = Stamp(d)]
        /\ store' = IF store[key(req[r])] = Absent
                    THEN Set(key(req[r]), JSONstringify(Stamp(d)), routeExpire)
                    ELSE store
        /\ wlog' = [wlog EXCEPT ![r] = Append(@, <<"data", JSONstringify(Stamp(d)), routeExpire>>)]
    /\ nextCalls' = [nextCalls EXCEPT ![r] = @ + 1]
    /\ pc' = [pc EXCEPT ![r] = "release"]
    /\ UNCHANGED <<wfr, kq, canceled, hk, ac, sc, kit, available, nodeEnv, rlog, expired, req, retryTimes, cacheStatus, thrown, waited, otherWrote>>

\* cache.ts:58-69, next() returns a response that is written back: the stamp
\* and the write of the data key
GenerateWrite(r) ==
    /\ pc[r] = "generate"
    /\ \E d \in GenData(r) \cup {NoData}, cc \in CacheControls :
        /\ Cacheable(GenOk(d, cc))
        /\ gen' = [gen EXCEPT ![r] = GenOk(d, cc)]
        /\ ctxData' = [ctxData EXCEPT ![r] = Stamp(d)]
        /\ store' = Set(key(req[r]), JSONstringify(Stamp(d)), routeExpire)
        /\ wlog' = [wlog EXCEPT ![r] = Append(@, <<"data", JSONstringify(Stamp(d)), routeExpire>>)]
    /\ nextCalls' = [nextCalls EXCEPT ![r] = @ + 1]
    /\ pc' = [pc EXCEPT ![r] = "release"]
    /\ UNCHANGED <<wfr, kq, canceled, hk, ac, sc, kit, available, nodeEnv, rlog, expired, req, retryTimes, cacheStatus, thrown, waited, otherWrote>>

\* cache.ts:58-69, as GenerateWrite, but the store fails the write: the
\* awaited set rejects, nothing catches it, and the middleware ends there
GenerateWriteFail(r) ==
    /\ pc[r] = "generate"
    /\ \E d \in GenData(r) \cup {NoData}, cc \in CacheControls :
        /\ Cacheable(GenOk(d, cc))
        /\ gen' = [gen EXCEPT ![r] = GenOk(d, cc)]
        /\ ctxData' = [ctxData EXCEPT ![r] = Stamp(d)]
        /\ wlog' = [wlog EXCEPT ![r] = Append(@, <<"data-rejected", JSONstringify(Stamp(d)), routeExpire>>)]
    /\ nextCalls' = [nextCalls EXCEPT ![r] = @ + 1]
    /\ thrown' = [thrown EXCEPT ![r] = StoreWriteFailure]
    /\ pc' = [pc EXCEPT ![r] = "error"]
    /\ UNCHANGED <<wfr, kq, canceled, hk, ac, sc, kit, available, nodeEnv, rlog, store, expired, req, retryTimes, cacheStatus, waited>>
    /\ otherWrote' = Ends(r, otherWrote)

\* cache.ts:72, the release after the write of the data key
Release(r) ==
    /\ pc[r] = "release"
    /\ store' = ReleaseControl(r)
    /\ wlog' = [wlog EXCEPT ![r] = Append(@, <<"control", "0", requestTimeout>>)]
    /\ pc' = [pc EXCEPT ![r] = "done"]
    /\ UNCHANGED <<wfr, kq, canceled, hk, ac, sc, kit, available, nodeEnv, rlog, expired, req, retryTimes, ctxVars, waited>>
    /\ otherWrote' = Ends(r, WritesControl(r))

\* the TTL of an entry runs out
Expire(k) ==
    /\ store[k] # Absent
    /\ expired < MaxExpire
    /\ store' = [store EXCEPT ![k] = Absent]
    /\ expired' = expired + 1
    /\ UNCHANGED <<wfr, kq, canceled, hk, ac, sc, kit, available, nodeEnv, rlog, pc, req, retryTimes, ctxVars, waited, wlog, otherWrote>>

Next ==
    \/ \E r \in Reqs : ArriveBypass(r)
    \/ \E r \in Reqs : ArriveCheck(r)
    \/ \E r \in Reqs : WaitIteration(r)
    \/ \E r \in Reqs : LookupHit(r)
    \/ \E r \in Reqs : LookupMiss(r)
    \/ \E r \in Reqs : Claim(r)
    \/ \E r \in Reqs : GenerateThrow(r)
    \/ \E r \in Reqs : GenerateNoWrite(r)
    \/ \E r \in Reqs : GenerateWrite(r)
    \/ \E r \in Reqs : GenerateWriteFail(r)
    \/ \E r \in Reqs : Release(r)
    \/ \E k \in Keys : Expire(k)

Spec == Init /\ [][Next]_vars

\* ------------------------------------------------------- cancellation
\* The caller of a request that is in the wait loop or inside next() cancels
\* it.  Nothing in the middleware reads the request's abort signal: the
\* cancellation changes no variable of the middleware, and the request goes
\* on with the steps above.  The generation step may give up on a canceled
\* request by throwing, which takes the catch block of cache.ts:60-63 as any
\* other error does, or may run to its end.
Cancel(r) ==
    /\ pc[r] \in {"wait", "generate"}
    /\ canceled[r] = "no"
    /\ canceled' = [canceled EXCEPT ![r] = pc[r]]
    /\ UNCHANGED <<ac, sc, kit, mainVars, wfr, kq, hk>>

\* cache.ts:58-63, next() throws for the cancellation
GenerateAbort(r) ==
    /\ pc[r] = "generate"
    /\ canceled[r] # "no"
    /\ gen' = [gen EXCEPT ![r] = GenThrow(AbortError)]
    /\ thrown' = [thrown EXCEPT ![r] = AbortError]
    /\ nextCalls' = [nextCalls EXCEPT ![r] = @ + 1]
    /\ store' = ReleaseControl(r)
    /\ wlog' = [wlog EXCEPT ![r] = Append(@, <<"control", "0", requestTimeout>>)]
    /\ pc' = [pc EXCEPT ![r] = "error"]
    /\ UNCHANGED <<wfr, kq, canceled, hk, ac, sc, kit, available, nodeEnv, rlog, expired, req, retryTimes, ctxData, cacheStatus, waited>>
    /\ otherWrote' = Ends(r, WritesControl(r))

NextCancel ==
    \/ Next
    \/ \E r \in Reqs : Cancel(r)
    \/ \E r \in Reqs : GenerateAbort(r)

SpecCancel == Init /\ [][NextCancel]_vars

\* ------------------------------------------------- waitForRequest by itself
\* One call of waitForRequest, of either source, for a follower whose polls
\* the surrounding requests decide: each poll may read any value.  The
\* profile and the configured timeout are drawn at the start.
InitWait ==
    /\ available = TRUE
    /\ nodeEnv \in {"test", "production"}
    /\ store = [k \in Keys |-> Absent]
    /\ expired = 0
    /\ pc = [r \in Reqs |-> "idle"]
    /\ req = [r \in Reqs |-> NoRequest]
    /\ retryTimes = [r \in Reqs |-> 0]
    /\ ctxData = [r \in Reqs |-> NoData]
    /\ cacheStatus = [r \in Reqs |-> "none"]
    /\ gen = [r \in Reqs |-> NoGen]
    /\ thrown = [r \in Reqs |-> "none"]
    /\ nextCalls = [r \in Reqs |-> 0]
    /\ waited = [r \in Reqs |-> FALSE]
    /\ wlog = [r \in Reqs |-> <<>>]
    /\ rlog = [r \in Reqs |-> <<>>]
    /\ otherWrote = [r \in Reqs |-> FALSE]
    /\ kq = NoKeyed
    /\ canceled = [r \in Reqs |-> "no"]
    /\ ac = NoAccess
    /\ sc = NoCompare
    /\ kit = NoKit
    /\ hk = NoHealth
    /\ \E impl \in Impls, t \in Timeouts :
          wfr = [impl |-> impl, timeout |-> t,
                 retryTimes |-> maxRetries(impl, nodeEnv, t),
                 sleeps |-> 0, polls |-> 0, out |-> "running"]

\* the loop's exit when the budget is used up, cache.ts:17,25 and
\* access-control.ts:120,128
AfterRetry(n) == IF n > 0 THEN "running" ELSE "thrown"

\* cache.ts:17-24, one iteration: the sleep, the poll, the return or the
\* decrement
WaitCache ==
    /\ wfr.impl = "cache.ts" /\ wfr.out = "running" /\ wfr.retryTimes > 0
    /\ \E isRequesting \in PollResults :
        wfr' = IF isRequesting # "1"
               THEN [wfr EXCEPT !.sleeps = @ + 1, !.polls = @ + 1, !.out = "returned"]
               ELSE [wfr EXCEPT !.sleeps = @ + 1, !.polls = @ + 1,
                                !.retryTimes = @ - 1,
                                !.out = AfterRetry(wfr.retryTimes - 1)]
    /\ UNCHANGED <<ac, sc, kit, mainVars, kq, canceled, hk>>

\* access-control.ts:120-127, one iteration: the poll, the return or the
\* sleep and the decrement
WaitAccess ==
    /\ wfr.impl = "access-control.ts" /\ wfr.out = "running" /\ wfr.retryTimes > 0
    /\ \E isRequesting \in PollResults :
        wfr' = IF isRequesting # "1"
               THEN [wfr EXCEPT !.polls = @ + 1, !.out = "returned"]
               ELSE [wfr EXCEPT !.polls = @ + 1, !.sleeps = @ + 1,
                                !.retryTimes = @ - 1,
                                !.out = AfterRetry(wfr.retryTimes - 1)]
    /\ UNCHANGED <<ac, sc, kit, mainVars, kq, canceled, hk>>

NextWait == WaitCache \/ WaitAccess

SpecWait == InitWait /\ [][NextWait]_vars

\* ------------------------------------------------ the keys by themselves
\* Two requests drawn at the start; the middleware computes the keys of the
\* one, then of the other.
InitKeys ==
    /\ available = TRUE
    /\ nodeEnv = "production"
    /\ store = [k \in Keys |-> Absent]
    /\ expired = 0
    /\ pc = [r \in Reqs |-> "idle"]
    /\ req = [r \in Reqs |-> NoRequest]
    /\ retryTimes = [r \in Reqs |-> 0]
    /\ ctxData = [r \in Reqs |-> NoData]
    /\ cacheStatus = [r \in Reqs |-> "none"]
    /\ gen = [r \in Reqs |-> NoGen]
    /\ thrown = [r \in Reqs |-> "none"]
    /\ nextCalls = [r \in Reqs |-> 0]
    /\ waited = [r \in Reqs |-> FALSE]
    /\ wlog = [r \in Reqs |-> <<>>]
    /\ rlog = [r \in Reqs |-> <<>>]
    /\ otherWrote = [r \in Reqs |-> FALSE]
    /\ wfr = NoWait
    /\ canceled = [r \in Reqs |-> "no"]
    /\ ac = NoAccess
    /\ sc = NoCompare
    /\ kit = NoKit
    /\ hk = NoHealth
    /\ \E a, b \in KeyRequests : kq = [a |-> a, b |-> b, ka |-> NoKeys, kb |-> NoKeys]

\* cache.ts:35-39 for the first request
KeyFirst ==
    /\ kq.a # NoRequest /\ kq.ka = NoKeys
    /\ kq' = [kq EXCEPT !.ka = KeysOf(kq.a)]
    /\ UNCHANGED <<ac, sc, kit, mainVars, wfr, canceled, hk>>

\* cache.ts:35-39 for the second request
KeySecond ==
    /\ kq.ka # NoKeys /\ kq.kb = NoKeys
    /\ kq' = [kq EXCEPT !.kb = KeysOf(kq.b)]
    /\ UNCHANGED <<ac, sc, kit, mainVars, wfr, canceled, hk>>

NextKeys == KeyFirst \/ KeySecond

SpecKeys == InitKeys /\ [][NextKeys]_vars

\* ------------------------------------------------------ the health endpoint
\* One request to /health, served by the handler of either source: the
\* configured API key, the key the request carries and what collect()
\* reports are drawn.
InitHealth ==
    /\ available \in BOOLEAN
    /\ nodeEnv = "production"
    /\ store = [k \in Keys |-> Absent]
    /\ expired = 0
    /\ pc = [r \in Reqs |-> "idle"]
    /\ req = [r \in Reqs |-> NoRequest]
    /\ retryTimes = [r \in Reqs |-> 0]
    /\ ctxData = [r \in Reqs |-> NoData]
    /\ cacheStatus = [r \in Reqs |-> "none"]
    /\ gen = [r \in Reqs |-> NoGen]
    /\ thrown = [r \in Reqs |-> "none"]
    /\ nextCalls = [r \in Reqs |-> 0]
    /\ waited = [r \in Reqs |-> FALSE]
    /\ wlog = [r \in Reqs |-> <<>>]
    /\ rlog = [r \in Reqs |-> <<>>]
    /\ otherWrote = [r \in Reqs |-> FALSE]
    /\ wfr = NoWait
    /\ kq = NoKeyed
    /\ canceled = [r \in Reqs |-> "no"]
    /\ ac = NoAccess
    /\ sc = NoCompare
    /\ kit = NoKit
    /\ \E impl \in HealthImpls, k \in ApiKeys, h \in AuthHeaders, x \in XApiKeys :
          hk = [NoHealth EXCEPT !.impl = impl, !.apiKey = k, !.authHeader = h,
                                !.xApiKey = x, !.phase = "start"]

\* part_003:59-69, the key the request carries
providedKey(h, x) ==
    IF h.scheme = "Bearer" THEN h.cred
    ELSE IF ~Falsy(x) THEN x
    ELSE "undef"

\* the check of the key turning away only requests that carry no key
Denied_MissingOnly(apiKey, k) == ~Falsy(apiKey) /\ Falsy(k)

\* part_003:71-91
Denied(apiKey, k) == ~Falsy(apiKey) /\ (Falsy(k) \/ k # apiKey)

\* part_003:56-91, the check of the API key; part_002 has none
HealthAuth ==
    /\ hk.phase = "start"
    /\ hk' = IF hk.impl = "part_003"
              THEN LET k == providedKey(hk.authHeader, hk.xApiKey)
                   IN  IF Denied(hk.apiKey, k)
                       THEN [hk EXCEPT !.providedKey = k, !.phase = "responded",
                                       !.res = [status |-> 401, body |-> Unauthorized]]
                       ELSE [hk EXCEPT !.providedKey = k, !.phase = "collect"]
              ELSE [hk EXCEPT !.phase = "collect"]
    /\ UNCHANGED <<ac, sc, kit, mainVars, wfr, kq, canceled>>

\* part_002:72 and part_003:106, collect() returns a report
HealthCollect ==
    /\ hk.phase = "collect"
    /\ \E report \in Reports : hk' = [hk EXCEPT !.phase = "collected", !.report = report]
    /\ UNCHANGED <<ac, sc, kit, mainVars, wfr, kq, canceled>>

\* part_002:87-91 and part_003:107-112, the response
HealthRespond ==
    /\ hk.phase = "collected"
    /\ hk' = [hk EXCEPT !.phase = "responded",
                         !.res = [status |-> httpStatus(hk.report), body |-> hk.report]]
    /\ UNCHANGED <<ac, sc, kit, mainVars, wfr, kq, canceled>>

NextHealth == HealthAuth \/ HealthCollect \/ HealthRespond

SpecHealth == InitHealth /\ [][NextHealth]_vars

\* ---------------------------------------------------------- access control
InitAccess ==
    /\ available = TRUE
    /\ nodeEnv = "production"
    /\ store = [k \in Keys |-> Absent]
    /\ expired = 0
    /\ pc = [r \in Reqs |-> "idle"]
    /\ req = [r \in Reqs |-> NoRequest]
    /\ retryTimes = [r \in Reqs |-> 0]
    /\ ctxData = [r \in Reqs |-> NoData]
    /\ cacheStatus = [r \in Reqs |-> "none"]
    /\ gen = [r \in Reqs |-> NoGen]
    /\ thrown = [r \in Reqs |-> "none"]
    /\ nextCalls = [r \in Reqs |-> 0]
    /\ waited = [r \in Reqs |-> FALSE]
    /\ wlog = [r \in Reqs |-> <<>>]
    /\ rlog = [r \in Reqs |-> <<>>]
    /\ otherWrote = [r \in Reqs |-> FALSE]
    /\ wfr = NoWait
    /\ kq = NoKeyed
    /\ canceled = [r \in Reqs |-> "no"]
    /\ hk = NoHealth
    /\ sc = NoCompare
    /\ kit = NoKit
    /\ \E impl \in AccessImpls, p \in AccessPaths, k \in AccessKeys,
          qk \in QueryKeys, qc \in QueryCodes :
          ac = [NoAccess EXCEPT !.impl = impl, !.path = p, !.accessKey = k,
                                !.key = qk, !.code = qc, !.phase = "start"]

\* access-control.ts:38-39 and :87-88
isKeyValid(a) == safeCompare(a.impl, a.accessKey, a.key)
isCodeValid(a) == safeCompare(a.impl, a.code, md5(<<a.path>> \o a.accessKey.s))

\* the test rejecting a request as soon as one of the two checks fails
Rejects_EitherInvalid(a) ==
    /\ ~Exempt(a.path) /\ ~Not(a.accessKey)
    /\ isKeyValid(a) # "true" \/ isCodeValid(a) # "true"

\* access-control.ts:34-43 and :83-92
Rejects(a) ==
    /\ ~Exempt(a.path) /\ ~Not(a.accessKey)
    /\ isKeyValid(a) # "true" /\ isCodeValid(a) # "true"

\* access-control.ts:29-43 and :78-92, the middleware up to next()
AccessControl ==
    /\ ac.phase = "start"
    /\ ac' = IF ~Exempt(ac.path) /\ ~Not(ac.accessKey)
                 /\ "throws" \in {isKeyValid(ac), isCodeValid(ac)}
              THEN [ac EXCEPT !.phase = "error", !.thrown = RangeError]
              ELSE IF Rejects(ac)
              THEN [ac EXCEPT !.phase = "error", !.thrown = RejectError]
              ELSE [ac EXCEPT !.phase = "next"]
    /\ UNCHANGED <<mainVars, wfr, kq, canceled, hk, sc, kit>>

\* access-control.ts:35, :45 and :84, :94, await next()
AccessNext ==
    /\ ac.phase = "next"
    /\ \/ ac' = [ac EXCEPT !.phase = "done", !.nextCalls = @ + 1]
       \/ \E e \in GenErrors :
            ac' = [ac EXCEPT !.phase = "error", !.nextCalls = @ + 1, !.thrown = e]
    /\ UNCHANGED <<mainVars, wfr, kq, canceled, hk, sc, kit>>

NextAccess == AccessControl \/ AccessNext

SpecAccess == InitAccess /\ [][NextAccess]_vars

\* -------------------------------------------------------------- safeCompare
InitCompare ==
    /\ available = TRUE
    /\ nodeEnv = "production"
    /\ store = [k \in Keys |-> Absent]
    /\ expired = 0
    /\ pc = [r \in Reqs |-> "idle"]
    /\ req = [r \in Reqs |-> NoRequest]
    /\ retryTimes = [r \in Reqs |-> 0]
    /\ ctxData = [r \in Reqs |-> NoData]
    /\ cacheStatus = [r \in Reqs |-> "none"]
    /\ gen = [r \in Reqs |-> NoGen]
    /\ thrown = [r \in Reqs |-> "none"]
    /\ nextCalls = [r \in Reqs |-> 0]
    /\ waited = [r \in Reqs |-> FALSE]
    /\ wlog = [r \in Reqs |-> <<>>]
    /\ rlog = [r \in Reqs |-> <<>>]
    /\ otherWrote = [r \in Reqs |-> FALSE]
    /\ wfr = NoWait
    /\ kq = NoKeyed
    /\ canceled = [r \in Reqs |-> "no"]
    /\ hk = NoHealth
    /\ ac = NoAccess
    /\ kit = NoKit
    /\ \E a, b \in Strings : sc = [NoCompare EXCEPT !.a = a, !.b = b]

\* access-control.ts:20-27
CompareHash ==
    /\ sc.hash = "none"
    /\ sc' = [sc EXCEPT !.hash = safeCompareHash(sc.a, sc.b)]
    /\ UNCHANGED <<mainVars, wfr, kq, canceled, hk, ac, kit>>

\* access-control.ts:69-76
CompareLength ==
    /\ sc.length = "none"
    /\ sc' = [sc EXCEPT !.length = safeCompareLength(sc.a, sc.b)]
    /\ UNCHANGED <<mainVars, wfr, kq, canceled, hk, ac, kit>>

NextCompare == CompareHash \/ CompareLength

SpecCompare == InitCompare /\ [][NextCompare]_vars

\* ------------------------------------------------------------- healthkit.ts
InitKit ==
    /\ available = TRUE
    /\ nodeEnv = "production"
    /\ store = [k \in Keys |-> Absent]
    /\ expired = 0
    /\ pc = [r \in Reqs |-> "idle"]
    /\ req = [r \in Reqs |-> NoRequest]
    /\ retryTimes = [r \in Reqs |-> 0]
    /\ ctxData = [r \in Reqs |-> NoData]
    /\ cacheStatus = [r \in Reqs |-> "none"]
    /\ gen = [r \in Reqs |-> NoGen]
    /\ thrown = [r \in Reqs |-> "none"]
    /\ nextCalls = [r \in Reqs |-> 0]
    /\ waited = [r \in Reqs |-> FALSE]
    /\ wlog = [r \in Reqs |-> <<>>]
    /\ rlog = [r \in Reqs |-> <<>>]
    /\ otherWrote = [r \in Reqs |-> FALSE]
    /\ wfr = NoWait
    /\ kq = NoKeyed
    /\ canceled = [r \in Reqs |-> "no"]
    /\ hk = NoHealth
    /\ ac = NoAccess
    /\ sc = NoCompare
    /\ \E d, i \in Urls :
          kit = [NoKit EXCEPT !.dashboardUrl = d, !.ingestUrl = i, !.phase = "loaded"]

\* healthkit.ts:31
dashboardUrl(k) == IF Falsy(k.dashboardUrl) THEN k.ingestUrl ELSE k.dashboardUrl

\* healthkit.ts:47-81, the construction and the start of collect(), or the
\* catch when the constructor throws
Construct(k) ==
    \/ kit' = [k EXCEPT !.state = "initializing", !.healthkit = "instance",
                        !.created = @ + 1, !.collect = "pending", !.inits = @ + 1]
    \/ kit' = [k EXCEPT !.state = "failed", !.threw = TRUE, !.inits = @ + 1]

\* initHealthKit without the test for an instance
initHealthKit_NoGuard ==
    /\ kit.phase = "loaded" /\ kit.inits < MaxInits
    /\ IF Falsy(dashboardUrl(kit))
       THEN kit' = [kit EXCEPT !.state = "disabled", !.inits = @ + 1]
       ELSE Construct(kit)
    /\ UNCHANGED <<mainVars, wfr, kq, canceled, hk, ac, sc>>

\* healthkit.ts:27-82, a call of initHealthKit
initHealthKit ==
    /\ kit.phase = "loaded" /\ kit.inits < MaxInits
    /\ IF kit.healthkit # "null"
       THEN kit' = [kit EXCEPT !.inits = @ + 1]
       ELSE IF Falsy(dashboardUrl(kit))
       THEN kit' = [kit EXCEPT !.state = "disabled", !.inits = @ + 1]
       ELSE Construct(kit)
    /\ UNCHANGED <<mainVars, wfr, kq, canceled, hk, ac, sc>>

\* healthkit.ts:67-71, collect() resolved
CollectResolved ==
    /\ kit.collect = "pending"
    /\ kit' = [kit EXCEPT !.collect = "resolved", !.state = "connected"]
    /\ UNCHANGED <<mainVars, wfr, kq, canceled, hk, ac, sc>>

\* healthkit.ts:72-76, collect() rejected
CollectRejected ==
    /\ kit.collect = "pending"
    /\ kit' = [kit EXCEPT !.collect = "rejected", !.state = "failed"]
    /\ UNCHANGED <<mainVars, wfr, kq, canceled, hk, ac, sc>>

NextKit == initHealthKit \/ CollectResolved \/ CollectRejected

SpecKit == InitKit /\ [][NextKit]_vars

\* ------------------------------------------------------------ vocabulary
Cached(r) == req[r] # NoRequest /\ ~Bypassed(req[r])
SameIdentity(r, q) == r # q /\ Cached(r) /\ Cached(q) /\ requestKey(req[r]) = requestKey(req[q])
Generating(r) == pc[r] = "generate"
\* no request other than those of S has written to the store
OnlyWriters(S) == \A o \in Reqs \ S : wlog[o] = <<>>
\* the two requests r and q, alone and with no TTL run out so far
TwoAlone(r, q) == SameIdentity(r, q) /\ OnlyWriters({r, q}) /\ expired = 0

Range(f) == {f[i] : i \in DOMAIN f}
\* the requests that wrote the value v under their data key
WritersOf(v) == {o \in Reqs : <<"data", v, routeExpire>> \in Range(wlog[o])}

ControlKeys == {controlKey(q) : q \in Requests}
\* the step appends a write of the value v under its key of the given kind
\* to r's writes
Wrote(r, kind, v) ==
    /\ Len(wlog'[r]) = Len(wlog[r]) + 1
    /\ wlog'[r][Len(wlog'[r])][1] = kind
    /\ wlog'[r][Len(wlog'[r])][2] = v
\* what r's control key holds
Control(r) == Get(controlKey(req[r]))

Released(r) == <<"control", "0", requestTimeout>> \in Range(wlog[r])
Finished(r) == pc[r] \in {"done", "error"}
\* steps of a request, told by what they change
ArriveStep(q) == pc[q] = "idle" /\ pc'[q] # "idle"
LookupStep(q) == pc[q] = "lookup" /\ pc'[q] # "lookup"
ThrowStep(r) == pc[r] = "generate" /\ gen'[r].kind = "throw"

DataKeys == {key(q) : q \in Requests}
\* the requests that issued a write under their data key that the store
\* rejected
RejectedWriters == {o \in Reqs : \E w \in Range(wlog[o]) : w[1] = "data-rejected"}
\* the requests that wrote under the data key k
DataWriters(k) ==
    {o \in Reqs : Cached(o) /\ key(req[o]) = k /\ \E w \in Range(wlog[o]) : w[1] = "data"}

\* r has arrived
Arrived(r) == req[r] # NoRequest
\* a request for the path p
RequestFor(p) == [path |-> p, format |-> "undef", limit |-> "undef"]
\* r claimed its control key and has not released it since
HoldsClaim(r) == wlog[r] # <<>> /\ ~Released(r)

\* a poll of the wait loop
WaitStep(r) == pc[r] = "wait" /\ rlog'[r] # rlog[r]

\* the identity of a request: the path, the format or the default rss, the
\* limit if there is one
Identity(q) ==
    <<q.path, IF Falsy(q.format) THEN "rss" ELSE q.format,
      IF Falsy(q.limit) THEN "no limit" ELSE q.limit>>
\* the keys of both requests of kq are computed
BothKeyed == kq.ka # NoKeys /\ kq.kb # NoKeys

\* the step is a write of r under its data key that the store applied
DataWriteStep(r) ==
    /\ Len(wlog'[r]) = Len(wlog[r]) + 1
    /\ wlog'[r][Len(wlog'[r])][1] = "data"
\* the payload r's next() returned, as the write-back stores it
StoredPayload(r) == JSONstringify(Stamp(gen[r].data))

\* the step is r's write of "1" under its control key
ClaimStep(r) ==
    /\ Len(wlog'[r]) = Len(wlog[r]) + 1
    /\ wlog'[r][Len(wlog'[r])] = <<"control", "1", requestTimeout>>
\* r's reads so far: the control key one or more times, then the data key
ReadControlThenData(r) ==
    /\ Len(rlog[r]) >= 2
    /\ rlog[r][Len(rlog[r])] = "data"
    /\ \A i \in 1..(Len(rlog[r]) - 1) : rlog[r][i] = "control"

\* the request ends with an error next() threw, passed on as it is
Propagates(r) == pc'[r] = "error" /\ thrown'[r] = gen'[r].error /\ thrown'[r] \in GenErrors

\* the step is r's write of "0" under its control key
ReleaseStep(r) ==
    /\ Len(wlog'[r]) = Len(wlog[r]) + 1
    /\ wlog'[r][Len(wlog'[r])] = <<"control", "0", requestTimeout>>
\* next() returned to r a response that is to be written back
GotCacheable(r) == gen[r].kind = "ok" /\ Cacheable(gen[r])

TypeOK ==
    /\ pc \in [Reqs -> {"idle", "wait", "lookup", "claim", "generate", "release",
                        "done", "error"}]
    /\ \A k \in Keys : store[k].ttl \in {0, requestTimeout, routeExpire}

\* ------------------------------------------------------------------ C1
\* C1 as stated: two concurrent requests for one identity, alone against a
\* store that started empty and with no TTL run out, are never both inside
\* the generation step.
C1_MutualExclusion ==
    \A r, q \in Reqs : TwoAlone(r, q) => ~(Generating(r) /\ Generating(q))

\* C1 as amended: two such requests are both inside the generation step only
\* through the check-then-claim race, that is only if each of them read the
\* control key for the last time before the other wrote its claim; a request
\* whose read comes after the other's claim observes "1" and is not inside
\* the generation step together with it.
C1_OnlyByRace ==
    \A r, q \in Reqs :
        TwoAlone(r, q) /\ Generating(r) /\ Generating(q) => otherWrote[r] /\ otherWrote[q]

\* two requests inside the generation step together, and one that waits
\* while the other generates
C1_Witness ==
    \E r, q \in Reqs : TwoAlone(r, q) /\ Generating(r) /\ Generating(q)

\* ------------------------------------------------------------------ C2
\* C2 as stated: a request that observed "1" at its in-flight check never
\* claims the control key nor runs the generation step; it ends as a HIT or
\* with RequestInProgressError.  (Stated for runs in which no TTL ran out.)
C2_FollowerNeverClaims ==
    \A r \in Reqs :
        waited[r] /\ expired = 0 =>
            /\ wlog[r] = <<>>
            /\ pc[r] \notin {"claim", "generate", "release"}
            /\ pc[r] \in {"done", "error"} =>
                   cacheStatus[r] = "HIT" \/ thrown[r] = RequestInProgressError

\* C2 as amended: a request that observed "1" at its in-flight check waits
\* first and then goes one of three ways.  It fails with
\* RequestInProgressError exactly when its retry budget is used up, without
\* a store write or a call of next().  Otherwise it left the wait with
\* budget to spare and did its lookup: on a hit it carries a payload that
\* another request wrote under the data key and writes nothing itself; on a
\* miss it claims the control key and runs the generation step like any
\* leader.
C2_FollowerOutcomes ==
    \A r \in Reqs :
        waited[r] =>
            /\ (thrown[r] = RequestInProgressError) = (retryTimes[r] = 0)
            /\ thrown[r] = RequestInProgressError =>
                   pc[r] = "error" /\ wlog[r] = <<>> /\ nextCalls[r] = 0 /\ cacheStatus[r] = "none"
            /\ pc[r] = "wait" => wlog[r] = <<>> /\ nextCalls[r] = 0
            /\ cacheStatus[r] = "HIT" =>
                   wlog[r] = <<>> /\ WritersOf(JSONstringify(ctxData[r])) \ {r} # {}
            /\ wlog[r] # <<>> => cacheStatus[r] = "none" /\ retryTimes[r] > 0

\* a follower that waited, missed at its lookup and is inside the generation
\* step itself
C2_Witness == \E r \in Reqs : waited[r] /\ Generating(r) /\ expired = 0

\* ------------------------------------------------------------------ C3
\* C3 as stated: no write sets "1" when the control key holds "1", no write
\* sets "0" when it holds "0" or is absent, and an entry that was written
\* never returns to absent.  (Stated for the steps before any TTL runs out.)
C3_StrictAlternation ==
    [][expired' = 0 =>
        /\ \A r \in Reqs :
             /\ Wrote(r, "control", "1") => Control(r) # "1"
             /\ Wrote(r, "control", "0") => Control(r) = "1"
        /\ \A k \in ControlKeys : store[k] # Absent => store'[k] # Absent]_vars

\* C3 as amended: the control key holds absent, "1" or "0"; a request writes
\* "1" as its first write and "0" only after its own "1"; the write of "1"
\* finds a value other than "1" and the write of "0" finds "1" whenever no
\* other request wrote the control key since the writer last read it and no
\* TTL ran out (requests that race through the check-then-claim window write
\* "1" over "1" and "0" over "0"); and the entry returns to absent only when
\* its TTL runs out, never by a write.
C3_AlternationUnlessRaced ==
    [][/\ \A r \in Reqs :
            /\ Wrote(r, "control", "1") =>
                   /\ wlog[r] = <<>>
                   /\ ~otherWrote[r] /\ expired = 0 => Control(r) # "1"
            /\ Wrote(r, "control", "0") =>
                   /\ wlog[r] # <<>> /\ wlog[r][1] = <<"control", "1", requestTimeout>>
                   /\ <<"control", "0", requestTimeout>> \notin Range(wlog[r])
                   /\ ~otherWrote[r] /\ expired = 0 => Control(r) = "1"
       /\ \A k \in ControlKeys :
            /\ store'[k].val \in {"nil", "0", "1"}
            /\ store[k] # Absent /\ store'[k] = Absent => expired' = expired + 1]_vars

\* a request released its claim and the control key holds "0"
C3_Witness ==
    \E r \in Reqs :
        /\ Cached(r) /\ pc[r] = "done" /\ Len(wlog[r]) >= 2
        /\ Control(r) = "0" /\ expired = 0

C5_ReleaseOnSuccess ==
    \A r \in Reqs :
        wlog[r] # <<>> /\ gen[r].kind = "ok" /\ Finished(r) => Released(r)

\* ------------------------------------------------------------------ C6
\* C6 as stated: a request whose write under the data key the store rejected
\* still completes without an error, with the generated response, and has
\* released the control key.
C6_WriteFailureNotFatal ==
    \A r \in RejectedWriters :
        Finished(r) =>
            /\ pc[r] = "done" /\ thrown[r] = "none"
            /\ ctxData[r] = Stamp(gen[r].data)
            /\ Released(r) /\ Control(r) # "1"

\* ------------------------------------------------------------------ C7
\* C7: a lookup made while nothing was ever written under the data key is a
\* MISS, and the request goes on to claim and to run next(); a request that
\* arrives after another one for the same identity finished with its
\* response written under the data key goes straight to the lookup, and a
\* lookup that finds the written entry (as it does while no TTL ran out) is a
\* HIT: it sets RSSHub-Cache-Status: HIT and attaches the payload stored,
\* which is the stamped payload of the one writer when there is only one.
C7_HitMiss ==
    [][\A q \in Reqs :
        /\ LookupStep(q) =>
            LET k == key(req[q]) IN
            /\ DataWriters(k) = {} => pc'[q] = "claim" /\ cacheStatus'[q] = "none"
            /\ DataWriters(k) # {} /\ expired = 0 => store[k] # Absent
            /\ DataWriters(k) # {} /\ store[k] # Absent =>
                  /\ cacheStatus'[q] = "HIT"
                  /\ Finished(q)'
                  /\ JSONstringify(ctxData'[q]) = Get(k)
                  /\ \A r \in Reqs :
                        DataWriters(k) = {r} => ctxData'[q] = Stamp(gen[r].data)
        /\ pc[q] = "claim" /\ pc'[q] # "claim" => pc'[q] = "generate"
        /\ \A r \in Reqs :
              /\ ArriveStep(q) /\ SameIdentity(r, q)'
              /\ pc[r] = "done" /\ r \in DataWriters(key(req[r])) /\ OnlyWriters({r})
              => pc'[q] = "lookup" /\ ~waited'[q]]_vars

\* a request wrote its response, and a later one for the same identity ended
\* as a HIT with that payload
C7_Witness ==
    \E r, q \in Reqs :
        /\ SameIdentity(r, q) /\ DataWriters(key(req[r])) = {r} /\ expired = 0
        /\ pc[r] = "done" /\ pc[q] = "done"
        /\ cacheStatus[q] = "HIT" /\ ctxData[q] = Stamp(gen[r].data)

C9_OnlyCacheableWritten ==
    /\ \A k \in DataKeys :
          store[k] # Absent =>
              \E r \in Reqs :
                  /\ Cached(r) /\ key(req[r]) = k
                  /\ gen[r].kind = "ok" /\ gen[r].cc # "no-cache" /\ gen[r].data # NoData
                  /\ store[k] = [val |-> JSONstringify(Stamp(gen[r].data)), ttl |-> routeExpire]
    /\ \A r \in Reqs :
          (\E w \in Range(wlog[r]) : w[1] # "control") =>
              gen[r].kind = "ok" /\ gen[r].cc # "no-cache" /\ gen[r].data # NoData

\* a stamped payload is stored under a data key
C9_Witness == \E k \in DataKeys : store[k] # Absent /\ DataWriters(k) # {}

\* ----------------------------------------------------------------- C10
\* C10: a request whose next() returned with Cache-Control: no-cache writes
\* nothing under the data key; and the lookup of a second request for the
\* same identity, made after the first one finished and with no other
\* writer, is a MISS again, after which the request claims and runs next().
C10_NoCacheSuppression ==
    [][\A r \in Reqs :
        /\ gen'[r].cc = "no-cache" => \A w \in Range(wlog'[r]) : w[1] = "control"
        /\ \A q \in Reqs :
              /\ LookupStep(q) /\ SameIdentity(r, q)
              /\ pc[r] = "done" /\ gen[r].cc = "no-cache" /\ OnlyWriters({r})
              => pc'[q] = "claim" /\ cacheStatus'[q] = "none"
        /\ pc[r] = "claim" /\ pc'[r] # "claim" =>
              pc'[r] = "generate" /\ Control(r)' = "1" /\ nextCalls'[r] = 0]_vars

\* after a no-cache response of one request, a second request for the same
\* identity is inside the generation step
C10_Witness ==
    \E r, q \in Reqs :
        /\ SameIdentity(r, q) /\ pc[r] = "done" /\ gen[r].cc = "no-cache"
        /\ gen[r].data # NoData /\ wlog[r] = <<<<"control", "1", requestTimeout>>, <<"control", "0", requestTimeout>>>>
        /\ Generating(q) /\ store[key(req[q])] = Absent

\* ----------------------------------------------------------------- C11
\* C11: each of the four paths /, /robots.txt, /logo.png and /favicon.ico is
\* bypassed whatever the store's availability, and a request for a bypassed
\* path issues no get and no set on the store, has called next() exactly
\* once and is finished by then, with no cache status set and with no error
\* other than one next() threw.
C11_BypassIsolation ==
    /\ \A p \in {"/", "/robots.txt", "/logo.png", "/favicon.ico"} : Bypassed(RequestFor(p))
    /\ \A r \in Reqs :
          Arrived(r) /\ req[r].path \in bypassList =>
              /\ rlog[r] = <<>> /\ wlog[r] = <<>>
              /\ nextCalls[r] = 1 /\ Finished(r)
              /\ cacheStatus[r] = "none" /\ ctxData[r] = NoData
              /\ thrown[r] = gen[r].error

\* with the store available and holding an entry, a request for a bypassed
\* path is done
C11_Witness ==
    \E r \in Reqs :
        /\ available /\ req[r].path \in bypassList /\ pc[r] = "done" /\ nextCalls[r] = 1
        /\ \E k \in Keys : store[k] # Absent

\* ----------------------------------------------------------------- C12
\* C12: while the store is not available nothing is read from it or written
\* to it and its contents stay as they were: a request for any path has
\* called next() exactly once and is finished by then, and it ends in an
\* error only if next() threw, with that error.
C12_PassThrough ==
    ~available =>
        /\ store = [k \in Keys |-> Absent]
        /\ \A r \in Reqs :
              Arrived(r) =>
                  /\ rlog[r] = <<>> /\ wlog[r] = <<>>
                  /\ nextCalls[r] = 1 /\ Finished(r)
                  /\ cacheStatus[r] = "none"
                  /\ thrown[r] = gen[r].error /\ thrown[r] # RequestInProgressError
                  /\ pc[r] = "done" <=> gen[r] = NoGen

\* with the store not available, a request for a path outside the bypass
\* list is done
C12_Witness ==
    \E r \in Reqs :
        ~available /\ req[r].path \notin bypassList /\ Arrived(r) /\ pc[r] = "done"

\* ----------------------------------------------------------------- C13
\* C13: when a request r claimed the control key and never released it, no
\* other request wrote, and the TTL of the control entry has run out, a
\* request q arriving for the same identity reads no "1": it goes to the
\* lookup without entering the wait loop; its lookup, with nothing under the
\* data key, is a MISS; and it then claims the control key and runs next().
C13_SelfHealing ==
    [][\A q \in Reqs :
        /\ \A r \in Reqs :
              /\ ArriveStep(q) /\ SameIdentity(r, q)'
              /\ HoldsClaim(r) /\ OnlyWriters({r}) /\ Control(r) = "nil"
              => pc'[q] = "lookup" /\ ~waited'[q] /\ rlog'[q] = <<"control">>
        /\ LookupStep(q) /\ store[key(req[q])] = Absent =>
              pc'[q] = "claim" /\ cacheStatus'[q] = "none" /\ nextCalls'[q] = 0
        /\ pc[q] = "claim" /\ pc'[q] # "claim" =>
              pc'[q] = "generate" /\ Control(q)' = "1"]_vars

\* r failed with the control key left at "1"; after the TTL ran out, q, which
\* made its in-flight check after r's claim, is inside the generation step
\* without having waited
C13_Witness ==
    \E r, q \in Reqs :
        /\ SameIdentity(r, q) /\ HoldsClaim(r) /\ pc[r] = "error"
        /\ expired = 1
        /\ Generating(q) /\ ~waited[q] /\ ~otherWrote[q]

\* ----------------------------------------------------------------- C14
\* C14: a poll of the wait loop that reads "1" uses up one retry, and the
\* one that uses up the last retry fails the request with
\* RequestInProgressError; a poll that reads anything else ends the wait
\* without an error and the request goes to the lookup.  No poll changes the
\* store, and a request that failed with RequestInProgressError has been
\* through the whole budget, has read the control key only, has written
\* nothing and has not called next().
C14_WaitTimeout ==
    [][\A r \in Reqs :
        /\ WaitStep(r) =>
            /\ store' = store /\ wlog'[r] = <<>> /\ nextCalls'[r] = 0
            /\ IF Control(r) = "1"
               THEN /\ retryTimes'[r] = retryTimes[r] - 1
                    /\ retryTimes[r] > 1 => pc'[r] = "wait" /\ thrown'[r] = "none"
                    /\ retryTimes[r] = 1 =>
                          pc'[r] = "error" /\ thrown'[r] = RequestInProgressError
               ELSE /\ pc'[r] = "lookup" /\ thrown'[r] = "none"
                    /\ retryTimes'[r] = retryTimes[r]
        /\ thrown'[r] = RequestInProgressError =>
            /\ pc'[r] = "error" /\ waited'[r] /\ retryTimes'[r] = 0
            /\ \A i \in DOMAIN rlog'[r] : rlog'[r][i] = "control"
            /\ wlog'[r] = <<>> /\ nextCalls'[r] = 0 /\ gen'[r] = NoGen
            /\ cacheStatus'[r] = "none" /\ ctxData'[r] = NoData]_vars

\* outside the test profile a follower has failed with RequestInProgressError
\* after its in-flight check and ten polls
C14_Witness ==
    \E r \in Reqs :
        /\ nodeEnv = "production" /\ pc[r] = "error"
        /\ thrown[r] = RequestInProgressError /\ Len(rlog[r]) = 11

\* ----------------------------------------------------------------- C15
\* C15 as stated: a call of waitForRequest that fails with the timeout error
\* has slept and rechecked ceil(requestTimeout * 1000 / waitTime) times, so
\* that it has waited for the configured request timeout, within one sleep.
C15_WaitBudget ==
    wfr.out = "thrown" =>
        LET ms == waitTime(wfr.impl, nodeEnv) IN
        /\ wfr.sleeps = Ceil(wfr.timeout * 1000, ms)
        /\ wfr.sleeps * ms >= wfr.timeout * 1000
        /\ wfr.sleeps * ms < wfr.timeout * 1000 + ms

\* ----------------------------------------------------------------- C16
\* C16 as stated: the data key and the control key of a request are built
\* from one fingerprint; two requests with the same path, the same format
\* (an absent one being rss) and the same limit have the same data key and
\* the same control key, whatever their other parameters; two requests that
\* differ in the format or in the limit have different data keys and
\* different control keys.
C16_KeyCoupling ==
    BothKeyed =>
        /\ kq.ka.key = kq.kb.key <=> kq.ka.controlKey = kq.kb.controlKey
        /\ Identity(kq.a) = Identity(kq.b) =>
              kq.ka.key = kq.kb.key /\ kq.ka.controlKey = kq.kb.controlKey
        /\ Identity(kq.a)[2] # Identity(kq.b)[2] \/ Identity(kq.a)[3] # Identity(kq.b)[3] =>
              kq.ka.key # kq.kb.key /\ kq.ka.controlKey # kq.kb.controlKey

\* ----------------------------------------------------------------- C17
\* C17 as stated: a request that claimed the control key and was canceled
\* while inside next() has written "0" to the control key when the
\* middleware is finished with it.
C17_ReleaseOnCancel ==
    \A r \in Reqs :
        canceled[r] = "generate" /\ Finished(r) => Released(r)

\* ----------------------------------------------------------------- C18
\* C18 as stated: the wait loop of a request canceled while waiting polls no
\* more: the next step of the request stops the loop, with its retries left
\* as they are, and the request ends with the cancellation, not with
\* RequestInProgressError.
C18_WaitCancel ==
    [][\A r \in Reqs :
        /\ canceled[r] = "wait" /\ pc[r] = "wait"
        /\ <<pc[r], retryTimes[r], rlog[r]>>' # <<pc[r], retryTimes[r], rlog[r]>>
        => /\ pc'[r] = "error"
           /\ thrown'[r] = AbortError
           /\ retryTimes'[r] = retryTimes[r] /\ rlog'[r] = rlog[r]]_vars

\* ----------------------------------------------------------------- C19
\* C19: every entry of the store carries a TTL: an entry under a control key
\* holds "1" or "0" with config.cache.requestTimeout, an entry under a data
\* key holds a payload with config.cache.routeExpire; and every write a
\* request issued was issued with the TTL of its kind, which is not zero.
C19_EveryWriteHasTTL ==
    /\ requestTimeout > 0 /\ routeExpire > 0
    /\ \A k \in ControlKeys :
          store[k] # Absent => store[k].val \in {"0", "1"} /\ store[k].ttl = requestTimeout
    /\ \A k \in DataKeys :
          store[k] # Absent => store[k].val \notin {"0", "1", "nil"} /\ store[k].ttl = routeExpire
    /\ \A r \in Reqs : \A w \in Range(wlog[r]) :
          /\ w[1] = "control" => w[2] \in {"0", "1"} /\ w[3] = requestTimeout
          /\ w[1] # "control" => w[3] = routeExpire

\* a request has claimed, written its response and released: the store
\* holds its "0" and its payload
C19_Witness ==
    \E r \in Reqs :
        /\ Len(wlog[r]) = 3 /\ pc[r] = "done"
        /\ store[controlKey(req[r])] = [val |-> "0", ttl |-> requestTimeout]
        /\ store[key(req[r])].ttl = routeExpire

C21_HealthStatus ==
    hk.phase = "responded" =>
        /\ hk.report # NoReport =>
              /\ hk.res.body = hk.report
              /\ hk.report.status = "fail" => hk.res.status = 503
              /\ hk.report.status # "fail" => hk.res.status = 200
        /\ hk.res.status = 503 => hk.res.body \in Reports /\ hk.res.body.status = "fail"
        /\ hk.res.status \notin {200, 503} => hk.report = NoReport

\* a degraded report was answered with 200, the report as the body
C21_Witness ==
    /\ hk.phase = "responded" /\ hk.report.status = "warn"
    /\ hk.res = [status |-> 200, body |-> hk.report]

\* ----------------------------------------------------------------- C22
\* C22: a request comes to the lookup only by a read of the control key that
\* returned something other than "1", at the in-flight check or at a poll
\* of the wait loop; it comes to the claim only by a lookup that found
\* nothing under the data key; it writes "1" only from there, having read
\* nothing in between; and it is inside next() only by that write, with "1"
\* under the control key when next() starts.
C22_ClaimOrdering ==
    [][\A r \in Reqs :
        /\ pc[r] # "lookup" /\ pc'[r] = "lookup" =>
              /\ pc[r] \in {"idle", "wait"}
              /\ Get(controlKey(req'[r])) # "1"
              /\ rlog'[r] = Append(rlog[r], "control")
        /\ pc[r] # "claim" /\ pc'[r] = "claim" =>
              /\ pc[r] = "lookup" /\ ~Truthy(Get(key(req[r])))
              /\ rlog'[r] = Append(rlog[r], "data")
        /\ ClaimStep(r) =>
              /\ pc[r] = "claim" /\ wlog[r] = <<>> /\ rlog'[r] = rlog[r]
              /\ ReadControlThenData(r) /\ nextCalls[r] = 0
        /\ pc[r] # "generate" /\ pc'[r] = "generate" =>
              ClaimStep(r) /\ Control(r)' = "1" /\ nextCalls'[r] = 0
        /\ Cached(r)' /\ nextCalls'[r] # nextCalls[r] /\ cacheStatus'[r] # "HIT" =>
              pc[r] = "generate" /\ wlog[r] # <<>>]_vars

\* a request that waited is inside next(), after its polls, its lookup and
\* its claim
C22_Witness ==
    \E r \in Reqs :
        /\ pc[r] = "generate" /\ waited[r] /\ ReadControlThenData(r)
        /\ Len(rlog[r]) >= 3 /\ wlog[r] = <<<<"control", "1", requestTimeout>>>>

\* ----------------------------------------------------------------- C23
\* C23: the state of the claim race is reachable (the witness), and it is as
\* the claim describes it: two requests for one identity, alone, of which
\* neither waited, are both inside next() having each read the control key
\* once, at the in-flight check, and the data key once, with a miss, and
\* having each written "1" and nothing else; the control key holds "1" and
\* the data key nothing.
C23_RaceState ==
    \A r, q \in Reqs :
        TwoAlone(r, q) /\ Generating(r) /\ Generating(q) /\ ~waited[r] /\ ~waited[q] =>
            /\ rlog[r] = <<"control", "data">> /\ rlog[q] = <<"control", "data">>
            /\ wlog[r] = <<<<"control", "1", requestTimeout>>>> /\ wlog[q] = wlog[r]
            /\ controlKey(req[r]) = controlKey(req[q]) /\ key(req[r]) = key(req[q])
            /\ Control(r) = "1" /\ store[key(req[r])] = Absent
            /\ nextCalls[r] = 0 /\ nextCalls[q] = 0

\* two requests for one identity, of which neither waited, are both inside
\* next()
C23_Witness ==
    \E r, q \in Reqs :
        /\ TwoAlone(r, q) /\ Generating(r) /\ Generating(q)
        /\ ~waited[r] /\ ~waited[q]
        /\ wlog[r] # <<>> /\ wlog[q] # <<>>

\* ----------------------------------------------------------------- C24
\* C24 as stated: in a call of waitForRequest every sleep and every
\* decrement of the budget follows a read of the control key that returned
\* "1", one of each per such read, and the read that returns something else
\* ends the call at once: the call has slept as often as it read "1", which
\* is once less than it read when it returned.
C24_WaitLoopShape ==
    wfr.impl \in Impls =>
        LET ones == IF wfr.out = "returned" THEN wfr.polls - 1 ELSE wfr.polls IN
        /\ wfr.polls >= 1 => ones >= 0 /\ wfr.sleeps = ones
        /\ wfr.retryTimes + wfr.sleeps = maxRetries(wfr.impl, nodeEnv, wfr.timeout)
        /\ wfr.polls = 0 => wfr.sleeps = 0

\* ----------------------------------------------------------------- C25
\* C25 as stated: a request moves only along BYPASS -> DONE; CHECK_INFLIGHT
\* -> [WAIT ->] LOOKUP -> HIT -> DONE; ... -> LOOKUP -> MISS -> GENERATE ->
\* WRITE -> DONE; ... -> GENERATE -> ERROR_PROPAGATE; CHECK_INFLIGHT -> WAIT
\* -> ERROR_TIMEOUT; and after the wait it reads the data key next, not the
\* control key.  WRITE is the write-back with the release, whether or not
\* the response is stored; an error thrown by the next() of a bypassed
\* request or of a hit counts as propagated.
C25_StateMachine ==
    [][\A r \in Reqs :
        pc'[r] # pc[r] =>
            CASE pc[r] = "idle" ->
                    \/ Bypassed(req'[r]) /\ (pc'[r] = "done" \/ Propagates(r))
                    \/ ~Bypassed(req'[r]) /\ pc'[r] \in {"wait", "lookup"}
              [] pc[r] = "wait" ->
                    \/ pc'[r] = "lookup"
                    \/ pc'[r] = "error" /\ thrown'[r] = RequestInProgressError
              [] pc[r] = "lookup" ->
                    /\ rlog'[r] = Append(rlog[r], "data")
                    /\ \/ cacheStatus'[r] = "HIT" /\ (pc'[r] = "done" \/ Propagates(r))
                       \/ cacheStatus'[r] = "none" /\ pc'[r] = "claim"
              [] pc[r] = "claim" -> pc'[r] = "generate"
              [] pc[r] = "generate" ->
                    \/ gen'[r].kind = "ok" /\ pc'[r] \in {"release", "done"}
                    \/ gen'[r].kind = "throw" /\ Propagates(r)
              [] pc[r] = "release" -> pc'[r] = "done"
              [] OTHER -> FALSE]_vars

\* ----------------------------------------------------------------- C26
\* C26: a request with a cacheable response writes "0" under the control
\* key only after its write under the data key, which is in the store by
\* then; so when a follower's poll reads the "0" of such a leader (the
\* leader being the only writer and no TTL having run out) the data key
\* holds the leader's payload, and the follower's lookup is a HIT with it.
C26_WriteBeforeRelease ==
    [][\A r \in Reqs :
        /\ ReleaseStep(r) /\ GotCacheable(r)' =>
              /\ GotCacheable(r)
              /\ wlog[r] = <<<<"control", "1", requestTimeout>>,
                             <<"data", StoredPayload(r), routeExpire>>>>
        /\ \A q \in Reqs :
              SameIdentity(r, q) /\ GotCacheable(r) /\ OnlyWriters({r}) /\ expired = 0 =>
                  /\ WaitStep(q) /\ Control(q) = "0" =>
                        pc'[q] = "lookup" /\ Get(key(req[q])) = StoredPayload(r)
                  /\ LookupStep(q) /\ waited[q] =>
                        /\ cacheStatus'[q] = "HIT" /\ pc'[q] \in {"done", "error"}
                        /\ ctxData'[q] = Stamp(gen[r].data)]_vars

\* a follower that waited for a leader has the leader's payload from its
\* lookup
C26_Witness ==
    \E r, q \in Reqs :
        /\ SameIdentity(r, q) /\ OnlyWriters({r}) /\ expired = 0
        /\ pc[r] = "done" /\ GotCacheable(r)
        /\ waited[q] /\ pc[q] = "done" /\ cacheStatus[q] = "HIT"
        /\ ctxData[q] = Stamp(gen[r].data)

\* ----------------------------------------------------------------- C27
\* C27: the middleware sets lastBuildDate on generated data in the step that
\* issues the write under the data key, after next() returned, and nowhere
\* else: the data of a request whose response is cacheable carries the
\* stamp, in the context and in the value written, and the data of a
\* request whose response is no-cache or empty is as next() returned it.
C27_StampOnlyOnWriteBack ==
    [][\A r \in Reqs :
        /\ gen'[r].kind = "ok" =>
              IF gen'[r].cc # "no-cache" /\ gen'[r].data # NoData
              THEN /\ ctxData'[r] = [gen'[r].data EXCEPT !.lastBuildDate = "now"]
                   /\ \E w \in Range(wlog'[r]) :
                         w[1] # "control" /\ w[2] = JSONstringify(ctxData'[r])
              ELSE /\ ctxData'[r] = gen'[r].data
                   /\ ctxData'[r].lastBuildDate = "unset"
        /\ ctxData'[r].lastBuildDate # ctxData[r].lastBuildDate /\ cacheStatus'[r] # "HIT" =>
              /\ pc[r] = "generate" /\ gen[r] = NoGen /\ gen'[r].kind = "ok"
              /\ nextCalls'[r] = nextCalls[r] + 1
              /\ Len(wlog'[r]) = Len(wlog[r]) + 1
              /\ wlog'[r][Len(wlog'[r])][1] \in {"data", "data-rejected"}]_vars

\* a no-cache response left as next() returned it, beside a cacheable one
\* that carries the stamp
C27_Witness ==
    \E r, q \in Reqs :
        /\ pc[r] = "done" /\ gen[r].cc = "no-cache" /\ gen[r].data # NoData
        /\ ctxData[r] = gen[r].data
        /\ pc[q] = "done" /\ gen[q].kind = "ok" /\ ctxData[q].lastBuildDate = "now"

\* ----------------------------------------------------------------- C28
\* C28 as stated: while a request is inside next() and the entry under its
\* control key has not run out, the control key holds "1".
C28_MarkerCoversGeneration ==
    \A r \in Reqs :
        Generating(r) /\ store[controlKey(req[r])] # Absent => Control(r) = "1"

\* C28 as amended: while a request is inside next() and the entry under its
\* control key has not run out, the control key holds "1" unless another
\* request wrote the control key after this one last read it, as a second
\* leader of the claim race does when it releases; and short of that, a
\* request arriving for the same identity reads "1" and enters the wait.
C28_MarkerUnlessRaced ==
    [][\A r \in Reqs :
        /\ Generating(r) /\ store[controlKey(req[r])] # Absent /\ ~otherWrote[r]
              => Control(r) = "1"
        /\ Generating(r) /\ store[controlKey(req[r])] # Absent /\ Control(r) # "1" =>
              \E o \in Reqs \ {r} :
                  /\ controlKey(req[o]) = controlKey(req[r])
                  /\ Released(o) /\ Control(r) = "0"
        /\ \A q \in Reqs :
              /\ ArriveStep(q) /\ SameIdentity(r, q)'
              /\ Generating(r) /\ store[controlKey(req[r])] # Absent /\ ~otherWrote[r]
              => pc'[q] = "wait" /\ waited'[q]
                 /\ retryTimes'[q] = InitialRetries(nodeEnv)]_vars

\* a request arrived while another was inside next() and is waiting
C28_Witness ==
    \E r, q \in Reqs :
        /\ SameIdentity(r, q) /\ Generating(r) /\ ~otherWrote[r] /\ Control(r) = "1"
        /\ pc[q] = "wait" /\ retryTimes[q] = InitialRetries(nodeEnv)

\* ----------------------------------------------------------------- C29
\* C29: when no write was rejected by the store, a control key that no
\* request holds (no request for it has written its claim without having
\* written its release) holds "0" or nothing, never "1".
C29_NoLeakedMarker ==
    RejectedWriters = {} =>
        \A k \in ControlKeys :
            (\A r \in Reqs : ~(HoldsClaim(r) /\ controlKey(req[r]) = k))
                => Get(k) \in {"0", "nil"}

\* two requests for one identity both claimed and both released, and the
\* control key holds "0"
C29_Witness ==
    \E r, q \in Reqs :
        /\ r # q /\ SameIdentity(r, q) /\ RejectedWriters = {}
        /\ Released(r) /\ Released(q) /\ Finished(r) /\ Finished(q)
        /\ Control(r) = "0"

\* ----------------------------------------------------------------- C30
\* C30: a request that is bypassed, ends as a HIT or gives up the wait with
\* RequestInProgressError has written nothing, and its arrival, its polls and
\* its lookup leave the store as it was; every write is made by a cached
\* request past a lookup that found nothing under the data key, and an entry
\* of the store changes only by such a write, under the writer's own keys,
\* or by its TTL running out.
C30_OnlyMissWrites ==
    [][/\ \A r \in Reqs :
            /\ Arrived(r)' /\ ( \/ Bypassed(req'[r])
                                \/ cacheStatus'[r] = "HIT"
                                \/ thrown'[r] = RequestInProgressError )
                  => wlog'[r] = <<>>
            /\ ArriveStep(r) \/ WaitStep(r) \/ LookupStep(r)
                  => store' = store /\ wlog' = wlog
            /\ LookupStep(r) /\ pc'[r] = "claim" => Get(key(req[r])) = "nil"
            /\ wlog'[r] # wlog[r] =>
                  /\ pc[r] \in {"claim", "generate", "release"}
                  /\ ~Bypassed(req[r]) /\ cacheStatus[r] = "none"
                  /\ thrown[r] # RequestInProgressError
                  /\ rlog[r] # <<>> /\ rlog[r][Len(rlog[r])] = "data"
       /\ \A k \in Keys :
            store'[k] # store[k] =>
                \/ expired' = expired + 1 /\ store'[k] = Absent
                \/ \E r \in Reqs :
                      /\ wlog'[r] # wlog[r]
                      /\ k \in {key(req[r]), controlKey(req[r])}]_vars

\* a request gave up the wait while the request that wrote the marker is
\* the only writer
C30_Witness ==
    \E r, q \in Reqs :
        /\ SameIdentity(r, q) /\ wlog[r] # <<>>
        /\ thrown[q] = RequestInProgressError /\ wlog[q] = <<>>
        /\ rlog[q] # <<>> /\ store[controlKey(req[q])] # Absent

\* ----------------------------------------------------------------- C31
\* the steps of the middleware for the request r once it has arrived: every
\* store operation and next() return, so each of them is taken when it stays
\* enabled
Step(r) ==
    \/ WaitIteration(r)
    \/ LookupHit(r)
    \/ LookupMiss(r)
    \/ Claim(r)
    \/ GenerateThrow(r) \/ GenerateNoWrite(r) \/ GenerateWrite(r) \/ GenerateWriteFail(r)
    \/ Release(r)

SpecLive == Init /\ [][Next]_vars /\ \A r \in Reqs : WF_vars(Step(r))

\* the polls of the control key r made in the wait loop
Polls(r) == Len(rlog[r]) - Cardinality({i \in 1..Len(rlog[r]) : rlog[r][i] = "data"}) - 1

\* C31: every request that arrived finishes; when no write was rejected by
\* the store it finishes done, with the error next() threw, or with
\* RequestInProgressError; and a waiting request never polls more often than
\* its retry budget allows, whatever the control key holds.
C31_Termination ==
    /\ \A r \in Reqs : Arrived(r) ~> Finished(r)
    /\ [](\A r \in Reqs :
            /\ Finished(r) /\ RejectedWriters = {} =>
                  \/ pc[r] = "done" /\ thrown[r] = "none"
                  \/ pc[r] = "error" /\ gen[r].kind = "throw" /\ thrown[r] = gen[r].error
                  \/ pc[r] = "error" /\ thrown[r] = RequestInProgressError
            /\ waited[r] =>
                  /\ Polls(r) <= InitialRetries(nodeEnv)
                  /\ pc[r] = "wait" =>
                        retryTimes[r] > 0 /\ Polls(r) + retryTimes[r] = InitialRetries(nodeEnv))

\* a request gave up the wait for a marker that its writer left behind and
\* that is still there
C31_Witness ==
    \E r, q \in Reqs :
        /\ SameIdentity(r, q) /\ pc[r] = "error" /\ HoldsClaim(r) /\ Control(r) = "1"
        /\ pc[q] = "error" /\ thrown[q] = RequestInProgressError
        /\ Polls(q) = InitialRetries(nodeEnv)

\* ----------------------------------------------------------------- C32
\* C32 as stated: two requests whose identities (path, format or the default
\* rss, limit) differ have different requestKey strings, and with them
\* different data keys and different control keys.
C32_RequestKeyInjective ==
    BothKeyed /\ Identity(kq.a) # Identity(kq.b) =>
        /\ requestKey(kq.a) # requestKey(kq.b)
        /\ kq.ka.key # kq.kb.key
        /\ kq.ka.controlKey # kq.kb.controlKey

\* ----------------------------------------------------------------- C33
\* config.accessKey is set
KeySet(a) == a.accessKey.def /\ a.accessKey.s # <<>>
\* the request carries the access key, or the code of its path
Authorized(a) ==
    \/ a.key = a.accessKey
    \/ a.code = md5(<<a.path>> \o a.accessKey.s)

C34_InitStateMachine ==
    [][/\ kit'.state \in KitStates
       /\ Falsy(dashboardUrl(kit)) /\ kit'.inits # kit.inits =>
             kit'.state = "disabled" /\ kit'.healthkit = "null" /\ kit'.created = 0
       /\ kit'.state = "connected" =>
             kit'.healthkit = "instance" /\ kit'.created = 1 /\ kit'.collect = "resolved"
       /\ kit'.state # kit.state /\ kit'.state = "connected" => kit.collect = "pending"
       /\ kit'.state = "failed" => kit'.threw \/ kit'.collect = "rejected"
       /\ kit'.state # kit.state /\ kit'.state = "failed" =>
             \/ kit.collect = "pending" /\ kit'.collect = "rejected"
             \/ kit'.inits # kit.inits /\ kit'.threw /\ kit'.healthkit = "null"
       /\ kit'.state = "initializing" => kit'.collect = "pending"
       /\ kit.healthkit # "null" =>
             /\ kit'.healthkit = kit.healthkit /\ kit'.created = kit.created
             /\ kit'.inits # kit.inits => kit'.state = kit.state /\ kit'.collect = kit.collect
       /\ kit'.created <= 1]_vars

\* initHealthKit was called again with a connected instance in place
C34_Witness ==
    /\ kit.state = "connected" /\ kit.healthkit = "instance" /\ kit.created = 1
    /\ kit.inits = MaxInits /\ kit.threw

\* ----------------------------------------------------------------- C35
\* C35: with an API key configured, a request that carries no key, in no
\* Bearer Authorization header and no x-api-key header, or whose key is not
\* the configured one, is answered 401 and no report is collected for it;
\* with no API key configured every request goes on to the collection.
C35_HealthAuth ==
    [][hk.impl = "part_003" /\ hk.phase = "start" /\ hk'.phase # "start" =>
          LET bearer == hk.authHeader.scheme = "Bearer"
              noKey  == (~bearer \/ hk.authHeader.cred = "") /\ Falsy(hk.xApiKey)
              k      == IF bearer THEN hk.authHeader.cred ELSE hk.xApiKey
          IN  /\ ~Falsy(hk.apiKey) /\ (noKey \/ k # hk.apiKey) =>
                    /\ hk'.phase = "responded" /\ hk'.res.status = 401
                    /\ hk'.res.body = Unauthorized /\ hk'.report = NoReport
              /\ ~Falsy(hk.apiKey) /\ ~noKey /\ k = hk.apiKey => hk'.phase = "collect"
              /\ Falsy(hk.apiKey) => hk'.phase = "collect"]_vars
    /\ [](hk.res.status = 401 => hk.report = NoReport /\ hk.phase = "responded")

\* a request with a wrong key in its Bearer header and the configured key in
\* its x-api-key header was answered 401
C35_Witness ==
    /\ hk.impl = "part_003" /\ hk.apiKey = "k1" /\ hk.xApiKey = "k1"
    /\ hk.authHeader = [scheme |-> "Bearer", cred |-> "k2"]
    /\ hk.res.status = 401 /\ hk.report = NoReport

\* ----------------------------------------------------------------- C36
\* both variants of safeCompare have returned
Compared == sc.hash # "none" /\ sc.length # "none"

====
